---- MODULE Spec2Model ----
(***************************************************************************)
(* The PGlite HTTP server of src/src/index.ts: one embedded PostgreSQL     *)
(* session (`db`) shared by every request handler.  A handler runs up to   *)
(* its next `await db.query/exec(...)`, which puts one statement on the    *)
(* session's serial queue; the engine executes the queue's head, and the   *)
(* handler's continuation then runs up to its next await or its response.  *)
(***************************************************************************)
EXTENDS Integers, Sequences, FiniteSets, TLC

\* Bounds of the model.
MaxReq == 2
MaxBatch == 2
MaxVal == 2
MaxId == 3
MaxStr == 2
MaxCols == 2
MaxRows == 2

VARIABLES store, snap, tx, nextId, queue, req, xfer, boot

vars == <<store, snap, tx, nextId, queue, req, xfer, boot>>

\* A field a JSON body or an optional parameter leaves out.
Undefined == "undefined"

\* parseInt(req.params.id) of a non-numeric path segment.
NaN == -1

----------------------------------------------------------------------------
\* SQL statements.  `op` stands for the SQL text; the users routes bind
\* name, email and id as parameters.

Stmt(op) == [op |-> op, name |-> Undefined, email |-> Undefined, id |-> 0]

InsertStmt(name, email) == [op |-> "INSERT", name |-> name, email |-> email, id |-> 0]

UpdateStmt(name, email, id) == [op |-> "UPDATE", name |-> name, email |-> email, id |-> id]

DeleteStmt(id) == [op |-> "DELETE", name |-> Undefined, email |-> Undefined, id |-> id]

TxControl == {"BEGIN", "COMMIT", "ROLLBACK"}

----------------------------------------------------------------------------
\* The embedded engine behind `db`: a store (one counter row and the users
\* table), the transaction state of the one session, the snapshot a
\* ROLLBACK restores, and the users_id_seq sequence.

InitStore == [val |-> 0, users |-> {}]

EmailTaken(users, email, id) == \E u \in users : u.email = email /\ u.id # id

\* The outcome of a data statement run on store st: ok, the rows it
\* returns, the error message, the store and the sequence afterwards.
Outcome(ok, rows, msg, st, nid) ==
    [ok |-> ok, rows |-> rows, msg |-> msg, store |-> st, nextId |-> nid]

\* InsertUser on a users table whose email column is not UNIQUE.
InsertUserNoUnique(s, st, nid) ==
    LET row == [id |-> nid, name |-> s.name, email |-> s.email]
    IN  Outcome(TRUE, <<row>>, "", [st EXCEPT !.users = @ \cup {row}], nid + 1)

\* INSERT INTO users (name, email) VALUES ($1, $2) RETURNING * against
\* email TEXT UNIQUE NOT NULL; id SERIAL draws nextval even when it fails.
InsertUser(s, st, nid) ==
    IF EmailTaken(st.users, s.email, 0)
    THEN Outcome(FALSE, <<>>, "duplicate key value violates unique constraint", st, nid + 1)
    ELSE LET row == [id |-> nid, name |-> s.name, email |-> s.email]
         IN  Outcome(TRUE, <<row>>, "", [st EXCEPT !.users = @ \cup {row}], nid + 1)

\* UPDATE users SET <fields present> WHERE id = $n RETURNING *
UpdateUser(s, st, nid) ==
    IF s.name = Undefined /\ s.email = Undefined
    THEN Outcome(FALSE, <<>>, "syntax error", st, nid)
    ELSE IF s.id = NaN
    THEN Outcome(FALSE, <<>>, "invalid input syntax for type integer", st, nid)
    ELSE LET hit == {u \in st.users : u.id = s.id}
         IN  IF hit = {} THEN Outcome(TRUE, <<>>, "", st, nid)
             ELSE LET old == CHOOSE u \in hit : TRUE
                      new == [id |-> old.id,
                              name |-> IF s.name = Undefined THEN old.name ELSE s.name,
                              email |-> IF s.email = Undefined THEN old.email ELSE s.email]
                  IN  IF EmailTaken(st.users, new.email, old.id)
                      THEN Outcome(FALSE, <<>>, "duplicate key value violates unique constraint", st, nid)
                      ELSE Outcome(TRUE, <<new>>, "",
                                   [st EXCEPT !.users = (@ \ {old}) \cup {new}], nid)

\* DELETE FROM users WHERE id = $1 RETURNING *
DeleteUser(s, st, nid) ==
    IF s.id = NaN
    THEN Outcome(FALSE, <<>>, "invalid input syntax for type integer", st, nid)
    ELSE LET hit == {u \in st.users : u.id = s.id}
         IN  IF hit = {} THEN Outcome(TRUE, <<>>, "", st, nid)
             ELSE Outcome(TRUE, <<CHOOSE u \in hit : TRUE>>, "",
                          [st EXCEPT !.users = @ \ hit], nid)

\* One data statement, executed whole: nothing else touches the store
\* between its read and its write.
Apply(s, st, nid) ==
    CASE s.op = "inc"    -> Outcome(TRUE, <<st.val + 1>>, "", [st EXCEPT !.val = @ + 1], nid)
      [] s.op = "sel"    -> Outcome(TRUE, <<st.val>>, "", st, nid)
      [] s.op = ""       -> Outcome(TRUE, <<>>, "", st, nid)
      [] s.op = "INSERT" -> InsertUser(s, st, nid)
      [] s.op = "UPDATE" -> UpdateUser(s, st, nid)
      [] s.op = "DELETE" -> DeleteUser(s, st, nid)
      [] OTHER           -> Outcome(FALSE, <<>>, "syntax error", st, nid)

\* What the session answers to one statement and the state it is left in.
Answer(ok, rows, msg, st, sn, t, nid) ==
    [ok |-> ok, rows |-> rows, msg |-> msg, store |-> st, snap |-> sn, tx |-> t,
     nextId |-> nid]

\* PostgreSQL's transaction block on the one session: BEGIN opens it (and
\* only warns when one is open), a failing statement aborts it, COMMIT of
\* an aborted block rolls back, COMMIT and ROLLBACK outside a block only
\* warn.  Outside a block every statement commits by itself.
Execute(s, st, sn, t, nid) ==
    CASE s.op = "BEGIN" ->
            IF t = "idle" THEN Answer(TRUE, <<>>, "", st, st, "intrans", nid)
            ELSE IF t = "intrans" THEN Answer(TRUE, <<>>, "", st, sn, t, nid)
            ELSE Answer(FALSE, <<>>, "current transaction is aborted", st, sn, t, nid)
      [] s.op = "COMMIT" ->
            IF t = "failed" THEN Answer(TRUE, <<>>, "", sn, sn, "idle", nid)
            ELSE Answer(TRUE, <<>>, "", st, st, "idle", nid)
      [] s.op = "ROLLBACK" ->
            IF t = "idle" THEN Answer(TRUE, <<>>, "", st, st, "idle", nid)
            ELSE Answer(TRUE, <<>>, "", sn, sn, "idle", nid)
      [] OTHER ->
            IF t = "failed"
            THEN Answer(FALSE, <<>>, "current transaction is aborted", st, sn, t, nid)
            ELSE LET o == Apply(s, st, nid)
                 IN  IF t = "idle"
                     THEN Answer(o.ok, o.rows, o.msg, o.store, o.store, "idle", o.nextId)
                     ELSE Answer(o.ok, o.rows, o.msg, o.store, sn,
                                 IF o.ok THEN "intrans" ELSE "failed", o.nextId)

----------------------------------------------------------------------------
\* Request bodies and their validators (zod schemas).

\* A JSON body: shape "malformed" stands for a body whose required field is
\* missing or has the wrong type.
Body(shape, query, queries, name, email, id) ==
    [shape |-> shape, query |-> query, queries |-> queries, name |-> name,
     email |-> email, id |-> id]

Malformed == Body("malformed", Stmt(""), <<>>, Undefined, Undefined, 0)

QueryBody(s) == Body("ok", s, <<>>, Undefined, Undefined, 0)

TxBody(qs) == Body("ok", Stmt(""), qs, Undefined, Undefined, 0)

UserBody(name, email, id) == Body("ok", Stmt(""), <<>>, name, email, id)

\* z.string().email() on the sample addresses of the model.
IsEmail(e) == e \in {"a@x.io", "b@x.io"}

\* querySchema: query: z.string().min(1)
QuerySchemaOK(b) == b.shape = "ok" /\ b.query.op # ""

\* TxSchemaOK with .min(1) on the array.
TxSchemaNonEmpty(b) == b.shape = "ok" /\ b.queries # <<>>

\* queries: z.array(z.object({query: z.string(), params: ...})), no minimum
TxSchemaOK(b) == b.shape = "ok"

\* sql: z.string().min(1)
ImportSchemaOK(b) == b.shape = "ok" /\ b.query.op # ""

\* name: z.string().min(1), email: z.string().email()
UserCreateOK(b) ==
    b.shape = "ok" /\ b.name # Undefined /\ b.name # "" /\ IsEmail(b.email)

\* the same two fields, each .optional()
UserUpdateOK(b) ==
    /\ b.shape = "ok"
    /\ b.name = Undefined \/ b.name # ""
    /\ b.email = Undefined \/ IsEmail(b.email)

----------------------------------------------------------------------------
\* One request: the handler's position (pc: the await it is suspended at,
\* or "done"), its locals (i, results, err) and its response.  issued is
\* the statements of this request the session has completed; pre is the
\* store when the request arrived, pretx the session's transaction state
\* then, and with the requests then in flight.

NewReq(route, body, pre, pretx, with) ==
    [route |-> route, body |-> body, pc |-> "start", i |-> 0, results |-> <<>>,
     err |-> "", status |-> 0, error |-> "", rows |-> <<>>, hasResults |-> FALSE,
     respResults |-> <<>>, nresp |-> 0, issued |-> <<>>, pre |-> pre, pretx |-> pretx,
     with |-> with]

\* The handler suspends at `await db.query/exec(stmt)` of call site `site`.
Await(q, site, stmt) ==
    [q |-> [q EXCEPT !.pc = site], emit |-> <<[stmt |-> stmt, site |-> site]>>]

\* res.status(status).json({success: false, error})
RespondError(q, status, error) ==
    [q |-> [q EXCEPT !.pc = "done", !.status = status, !.error = error,
                     !.nresp = @ + 1],
     emit |-> <<>>]

\* res.status(status).json({success: true, rows | user | message})
RespondRows(q, status, rows) ==
    [q |-> [q EXCEPT !.pc = "done", !.status = status, !.rows = rows,
                     !.nresp = @ + 1],
     emit |-> <<>>]

\* QueryStart with the await left out: the statement is handed to the
\* session and the response is sent without waiting for it.
QueryStartNoAwait(q) ==
    IF QuerySchemaOK(q.body)
    THEN [q |-> RespondRows(q, 200, <<>>).q,
          emit |-> <<[stmt |-> q.body.query, site |-> "query"]>>]
    ELSE RespondError(q, 400, "validation error")

\* POST /query
QueryStart(q) ==
    IF QuerySchemaOK(q.body) THEN Await(q, "query", q.body.query)
    ELSE RespondError(q, 400, "validation error")

QueryResume(q, a) ==
    IF a.ok THEN RespondRows(q, 200, a.rows) ELSE RespondError(q, 400, a.msg)

\* TxCatch without the ROLLBACK.
TxCatchNoRollback(q, msg) == RespondError(q, 400, msg)

\* POST /transaction: the catch block
TxCatch(q, msg) == Await([q EXCEPT !.err = msg], "rollback", Stmt("ROLLBACK"))

\* POST /transaction: res.json({success: true, results})
TxRespondOK(q) ==
    [q |-> [q EXCEPT !.pc = "done", !.status = 200, !.hasResults = TRUE,
                     !.respResults = q.results, !.nresp = @ + 1],
     emit |-> <<>>]

\* POST /transaction: res.status(400).json({success: false, error: error.message})
TxRespondError(q) == RespondError(q, 400, q.err)

\* TxPush with unshift in place of push.
TxPushFront(results, a) == <<[rows |-> a.rows, rowCount |-> Len(a.rows)]>> \o results

\* results.push({rows: result.rows, rowCount: result.rows.length})
TxPush(results, a) == Append(results, [rows |-> a.rows, rowCount |-> Len(a.rows)])

\* POST /transaction up to `await db.exec('BEGIN')`
TxStart(q) ==
    IF TxSchemaOK(q.body) THEN Await(q, "begin", Stmt("BEGIN"))
    ELSE TxCatch(q, "validation error")

\* The head of the for loop: the next query, or COMMIT after the last.
TxLoop(q, i) ==
    IF i <= Len(q.body.queries)
    THEN Await([q EXCEPT !.i = i], "stmt", q.body.queries[i])
    ELSE Await(q, "commit", Stmt("COMMIT"))

\* TxResume without the .catch(() => { }) on the ROLLBACK: its error
\* replaces the original one.
TxResumeRollbackSurfaces(q, a) ==
    CASE q.pc = "rollback" -> RespondError(q, 400, IF a.ok THEN q.err ELSE a.msg)
      [] ~a.ok             -> TxCatch(q, a.msg)
      [] q.pc = "begin"    -> TxLoop(q, 1)
      [] q.pc = "stmt"     -> TxLoop([q EXCEPT !.results = TxPush(@, a)], q.i + 1)
      [] OTHER             -> TxRespondOK(q)

\* POST /transaction resumed with the answer a to the awaited statement.
TxResume(q, a) ==
    CASE q.pc = "rollback" -> TxRespondError(q)
      [] ~a.ok             -> TxCatch(q, a.msg)
      [] q.pc = "begin"    -> TxLoop(q, 1)
      [] q.pc = "stmt"     -> TxLoop([q EXCEPT !.results = TxPush(@, a)], q.i + 1)
      [] OTHER             -> TxRespondOK(q)

\* POST /import
ImportStart(q) ==
    IF ImportSchemaOK(q.body) THEN Await(q, "query", q.body.query)
    ELSE RespondError(q, 400, "validation error")

ImportResume(q, a) ==
    IF a.ok THEN RespondRows(q, 200, <<>>) ELSE RespondError(q, 400, a.msg)

\* POST /users
PostUserStart(q) ==
    IF UserCreateOK(q.body) THEN Await(q, "query", InsertStmt(q.body.name, q.body.email))
    ELSE RespondError(q, 400, "validation error")

PostUserResume(q, a) ==
    IF a.ok THEN RespondRows(q, 201, a.rows) ELSE RespondError(q, 400, a.msg)

\* PutUserStart without the `updates.length === 0` check.
PutUserStartNoCheck(q) ==
    IF ~UserUpdateOK(q.body) THEN RespondError(q, 400, "validation error")
    ELSE Await(q, "query", UpdateStmt(q.body.name, q.body.email, q.body.id))

\* PUT /users/:id
PutUserStart(q) ==
    IF ~UserUpdateOK(q.body) THEN RespondError(q, 400, "validation error")
    ELSE IF q.body.name = Undefined /\ q.body.email = Undefined
    THEN RespondError(q, 400, "No fields to update")
    ELSE Await(q, "query", UpdateStmt(q.body.name, q.body.email, q.body.id))

PutUserResume(q, a) ==
    IF ~a.ok THEN RespondError(q, 400, a.msg)
    ELSE IF a.rows = <<>> THEN RespondError(q, 404, "User not found")
    ELSE RespondRows(q, 200, a.rows)

\* DELETE /users/:id
DeleteUserStart(q) == Await(q, "query", DeleteStmt(q.body.id))

DeleteUserResume(q, a) ==
    IF ~a.ok THEN RespondError(q, 500, a.msg)
    ELSE IF a.rows = <<>> THEN RespondError(q, 404, "User not found")
    ELSE RespondRows(q, 200, a.rows)

\* The handler of a route, from the request's arrival to its first await.
Start(q) ==
    CASE q.route = "query"       -> QueryStart(q)
      [] q.route = "transaction" -> TxStart(q)
      [] q.route = "import"      -> ImportStart(q)
      [] q.route = "postUser"    -> PostUserStart(q)
      [] q.route = "putUser"     -> PutUserStart(q)
      [] OTHER                   -> DeleteUserStart(q)

\* The continuation after an await, up to the next await or the response.
Resume(q, a) ==
    CASE q.route = "query"       -> QueryResume(q, a)
      [] q.route = "transaction" -> TxResume(q, a)
      [] q.route = "import"      -> ImportResume(q, a)
      [] q.route = "postUser"    -> PostUserResume(q, a)
      [] q.route = "putUser"     -> PutUserResume(q, a)
      [] OTHER                   -> DeleteUserResume(q, a)

----------------------------------------------------------------------------
\* Export and import.  A value of a row is NULL, a number or a string; v is
\* its text, one character per element.

Null == [t |-> "null", v |-> <<>>]

Num(digits) == [t |-> "num", v |-> digits]

Str(chars) == [t |-> "str", v |-> chars]

Chars == {"a", "'", ","}

Digits == {"0", "1", "2", "3", "4", "5", "6", "7", "8", "9"}

Strings == UNION {[1..n -> Chars] : n \in 0..MaxStr}

Numbers == {<<"7">>, <<"4", "2">>}

Types == {"integer", "text"}

Schemas == [1..MaxCols -> Types]

ValuesOf(type) ==
    {Null} \cup (IF type = "text" THEN {Str(c) : c \in Strings}
                 ELSE {Num(d) : d \in Numbers})

\* The rows a table of the given column types can hold.
RowsOf(schema) ==
    {row \in [1..Len(schema) -> UNION {ValuesOf(ty) : ty \in Types}] :
        \A k \in 1..Len(schema) : row[k] \in ValuesOf(schema[k])}

Tables(schema) == UNION {[1..n -> RowsOf(schema)] : n \in 0..MaxRows}

\* v.replace(/'/g, "''")
RECURSIVE DoubleQuotes(_)
DoubleQuotes(chars) ==
    IF chars = <<>> THEN <<>>
    ELSE (IF Head(chars) = "'" THEN <<"'", "'">> ELSE <<Head(chars)>>)
             \o DoubleQuotes(Tail(chars))

\* typeof v === 'string' ? `'${v.replace(/'/g, "''")}'` : v, as join()
\* writes it: the text of a number, nothing for null.
RenderValue(x) ==
    IF x.t = "str" THEN <<"'">> \o DoubleQuotes(x.v) \o <<"'">>
    ELSE IF x.t = "null" THEN <<>>
    ELSE x.v

\* values.join(', ')
RECURSIVE JoinValues(_)
JoinValues(texts) ==
    IF texts = <<>> THEN <<>>
    ELSE IF Len(texts) = 1 THEN texts[1]
    ELSE texts[1] \o <<",", " ">> \o JoinValues(Tail(texts))

\* The text between the parentheses of `INSERT INTO t VALUES (...)`.
InsertValues(row) == JoinValues([k \in 1..Len(row) |-> RenderValue(row[k])])

\* The INSERT lines of the dump, one per row in selection order.
ExportDump(rows) == [k \in 1..Len(rows) |-> InsertValues(rows[k])]

\* The engine reading a VALUES list: literals separated by commas.
RECURSIVE SkipSpaces(_, _)
SkipSpaces(text, i) ==
    IF i <= Len(text) /\ text[i] = " " THEN SkipSpaces(text, i + 1) ELSE i

\* A string literal from after its opening quote: '' is one quote, a single
\* ' closes it.
RECURSIVE ReadString(_, _, _)
ReadString(text, i, acc) ==
    IF i > Len(text) THEN [ok |-> FALSE, lit |-> Null, next |-> i]
    ELSE IF text[i] = "'"
    THEN IF i < Len(text) /\ text[i + 1] = "'"
         THEN ReadString(text, i + 2, Append(acc, "'"))
         ELSE [ok |-> TRUE, lit |-> Str(acc), next |-> i + 1]
    ELSE ReadString(text, i + 1, Append(acc, text[i]))

RECURSIVE ReadDigits(_, _, _)
ReadDigits(text, i, acc) ==
    IF i <= Len(text) /\ text[i] \in Digits
    THEN ReadDigits(text, i + 1, Append(acc, text[i]))
    ELSE [ok |-> TRUE, lit |-> Num(acc), next |-> i]

\* One literal at position i: a quoted string, a number or NULL; anything
\* else, nothing included, is a syntax error.
ReadLiteral(text, i) ==
    IF i > Len(text) THEN [ok |-> FALSE, lit |-> Null, next |-> i]
    ELSE IF text[i] = "'" THEN ReadString(text, i + 1, <<>>)
    ELSE IF text[i] \in Digits THEN ReadDigits(text, i, <<>>)
    ELSE IF i + 3 <= Len(text) /\ SubSeq(text, i, i + 3) = <<"N", "U", "L", "L">>
    THEN [ok |-> TRUE, lit |-> Null, next |-> i + 4]
    ELSE [ok |-> FALSE, lit |-> Null, next |-> i]

RECURSIVE ParseValues(_, _, _)
ParseValues(text, i, acc) ==
    LET l == ReadLiteral(text, SkipSpaces(text, i))
        j == SkipSpaces(text, l.next)
    IN  IF ~l.ok THEN [ok |-> FALSE, vals |-> <<>>]
        ELSE IF j > Len(text) THEN [ok |-> TRUE, vals |-> Append(acc, l.lit)]
        ELSE IF text[j] = "," THEN ParseValues(text, j + 1, Append(acc, l.lit))
        ELSE [ok |-> FALSE, vals |-> <<>>]

\* A literal stored in a column of the given type.
Fits(lit, type) ==
    lit.t = "null" \/ type = "text" \/ (lit.v # <<>> /\ \A k \in 1..Len(lit.v) : lit.v[k] \in Digits)

Coerce(lit, type) ==
    IF lit.t = "null" THEN Null
    ELSE IF type = "text" THEN Str(lit.v)
    ELSE Num(lit.v)

\* One INSERT of the dump executed against the re-created table.
ImportRow(text, schema) ==
    LET p == ParseValues(text, 1, <<>>)
    IN  IF p.ok /\ Len(p.vals) = Len(schema)
             /\ \A k \in 1..Len(schema) : Fits(p.vals[k], schema[k])
        THEN [ok |-> TRUE, row |-> [k \in 1..Len(schema) |-> Coerce(p.vals[k], schema[k])]]
        ELSE [ok |-> FALSE, row |-> <<>>]

\* db.exec(sql) of the whole dump: one failing statement fails the batch.
ImportDump(dump, schema) ==
    IF \A k \in 1..Len(dump) : ImportRow(dump[k], schema).ok
    THEN [ok |-> TRUE, rows |-> [k \in 1..Len(dump) |-> ImportRow(dump[k], schema).row]]
    ELSE [ok |-> FALSE, rows |-> <<>>]

\* No export or import going on.
NoTransfer ==
    [phase |-> "none", schema |-> <<>>, source |-> <<>>, dump |-> <<>>,
     target |-> <<>>, status |-> 0]

----------------------------------------------------------------------------
\* Startup: startServer and initDB.  boot holds the files of the data
\* directory and the engine as the process finds them (lock, fs, engine,
\* ddl), the position of startServer (pc), what it has done so far (log),
\* whether the session handle is assigned, whether the listener is bound,
\* and the exit code (-1 while the process runs).

Running == -1

Locks == {"absent", "stale", "stuck"}

FileSystems == {"ok", "write_fails", "delete_fails"}

Engines == {"ok", "throws", "rejects"}

BootEnv(lock, fs, engine, ddl, table) ==
    [lock |-> lock, fs |-> fs, engine |-> engine, ddl |-> ddl, table |-> table,
     pc |-> "start", log |-> <<>>, db |-> FALSE, listening |-> FALSE,
     exitCode |-> Running]

Did(b, event) == [b EXCEPT !.log = Append(@, event)]

\* The lock file is removed if it is there; a failure to remove it is
\* logged and startup goes on.
CleanLock(b) ==
    IF b.lock = "absent" THEN [b EXCEPT !.pc = "initDB"]
    ELSE IF b.lock = "stale" THEN [Did(b, "lock_removed") EXCEPT !.pc = "initDB"]
    ELSE [Did(b, "lock_remove_failed") EXCEPT !.pc = "initDB"]

\* initDB writes and deletes a test file; an error of either is thrown on.
WriteCheck(b) ==
    IF b.fs = "ok" THEN [Did(b, "write_check") EXCEPT !.pc = "new"]
    ELSE [Did(b, "write_check_failed") EXCEPT !.pc = "catch"]

\* new PGlite(dataDir, ...): the handle is assigned unless the constructor
\* throws; an engine that fails to come up rejects the first statement.
NewPGlite(b) ==
    IF b.engine = "throws" THEN [Did(b, "open_failed") EXCEPT !.pc = "catch"]
    ELSE [Did(b, "open") EXCEPT !.pc = "schema", !.db = TRUE]

\* await db.exec(CREATE TABLE IF NOT EXISTS users ...)
CreateTable(b) ==
    IF b.engine = "rejects" THEN [Did(b, "open_failed") EXCEPT !.pc = "catch"]
    ELSE IF ~b.ddl THEN [Did(b, "create_table_failed") EXCEPT !.pc = "catch"]
    ELSE [Did(b, "create_table") EXCEPT !.pc = "listen", !.table = TRUE]

BootCatchNoExit(b) == [b EXCEPT !.pc = "listen"]

\* catch (dbError) { ...; process.exit(1) }
BootCatch(b) == [Did(b, "exit") EXCEPT !.pc = "exited", !.exitCode = 1]

\* app.listen(PORT, '0.0.0.0', ...)
Listen(b) == [Did(b, "listen") EXCEPT !.pc = "listening", !.listening = TRUE]

\* The process after a startup on an empty data directory.
Booted == Listen(CreateTable(NewPGlite(WriteCheck(CleanLock(
              BootEnv("absent", "ok", "ok", TRUE, FALSE))))))

----------------------------------------------------------------------------
\* The state machine.

Init ==
    /\ store = InitStore
    /\ snap = InitStore
    /\ tx = "idle"
    /\ nextId = 1
    /\ queue = <<>>
    /\ req = <<>>
    /\ xfer = NoTransfer
    /\ boot = Booted

InFlight == {r \in 1..Len(req) : req[r].pc # "done"}

Enqueue(r, emit) == [k \in 1..Len(emit) |-> [rid |-> r, stmt |-> emit[k].stmt, site |-> emit[k].site]]

\* A request arrives: its handler runs to its first await or its response.
Receive(route, body, max) ==
    /\ Len(req) < max
    /\ LET r == Len(req) + 1
           h == Start(NewReq(route, body, store, tx, InFlight))
       IN  /\ req' = Append(req, h.q)
           /\ queue' = queue \o Enqueue(r, h.emit)
    /\ UNCHANGED <<store, snap, tx, nextId, xfer, boot>>

\* A request arrives while none is in flight; the finished requests before
\* it are forgotten.
ReceiveAlone(route, body) ==
    /\ InFlight = {}
    /\ LET h == Start(NewReq(route, body, store, tx, {}))
       IN  /\ req' = <<h.q>>
           /\ queue' = Enqueue(1, h.emit)
    /\ UNCHANGED <<store, snap, tx, nextId, xfer, boot>>

\* The session completes the statement h with answer a: the request that
\* awaits it records it and runs on.
Complete(h, a) ==
    LET q == [req[h.rid] EXCEPT !.issued =
                 Append(@, [stmt |-> h.stmt, site |-> h.site, ok |-> a.ok, rows |-> a.rows,
                            msg |-> a.msg])]
        c == Resume(q, a)
    IN  /\ req' = [req EXCEPT ![h.rid] = c.q]
        /\ queue' = Tail(queue) \o Enqueue(h.rid, c.emit)
        /\ store' = a.store
        /\ snap' = a.snap
        /\ tx' = a.tx
        /\ nextId' = a.nextId
        /\ UNCHANGED <<xfer, boot>>

\* The session executes the statement at the head of its queue.
EngineExec ==
    /\ queue # <<>>
    /\ Complete(Head(queue), Execute(Head(queue).stmt, store, snap, tx, nextId))

\* The engine cannot carry out a ROLLBACK (it has crashed or is closed):
\* the statement is rejected and the session is left as it was.
EngineFault ==
    /\ queue # <<>>
    /\ Head(queue).stmt.op = "ROLLBACK"
    /\ Complete(Head(queue), Answer(FALSE, <<>>, "rollback failed", store, snap, tx, nextId))

\* Batches of at most n statements over the statement texts ops.
Batches(ops, n) == UNION {[1..k -> {Stmt(o) : o \in ops}] : k \in 0..n}

\* Concurrent clients of POST /query and POST /transaction.
ReceiveQuery ==
    \E b \in {QueryBody(Stmt(o)) : o \in {"inc", "bad"}} :
        Receive("query", b, MaxReq)

ReceiveTransaction ==
    \E b \in {Malformed} \cup {TxBody(qs) : qs \in Batches({"inc", "bad"}, MaxBatch)} :
        Receive("transaction", b, MaxReq)

Next == ReceiveQuery \/ ReceiveTransaction \/ EngineExec

Spec == Init /\ [][Next]_vars

\* One client at a time: a request arrives only when none is in flight.
\* Its statements may be transaction control statements themselves.
ReceiveQuerySeq ==
    /\ store.val < MaxVal
    /\ \E b \in {QueryBody(Stmt(o)) : o \in {"inc", "bad", "BEGIN", "COMMIT"}} :
          ReceiveAlone("query", b)

ReceiveTransactionSeq ==
    /\ store.val < MaxVal
    /\ \E b \in {TxBody(qs) : qs \in Batches({"inc", "bad", "COMMIT"}, MaxBatch)} :
          ReceiveAlone("transaction", b)

NextSeq == ReceiveQuerySeq \/ ReceiveTransactionSeq \/ EngineExec

SpecSeq == Init /\ [][NextSeq]_vars

\* Concurrent clients of POST /transaction on an engine whose ROLLBACK may
\* fail.
NextFault == ReceiveTransaction \/ EngineExec \/ EngineFault

SpecFault == Init /\ [][NextFault]_vars

\* One client at a time of the users routes.
Names == {"ann", "bob"}

Emails == {"a@x.io", "b@x.io"}

Ids == {NaN} \cup (1..MaxId)

ReceivePostUser ==
    /\ nextId <= MaxId
    /\ \E b \in {Malformed} \cup
                {UserBody(n, e, 0) : n \in Names \cup {""}, e \in Emails \cup {"bogus"}} :
          ReceiveAlone("postUser", b)

ReceivePutUser ==
    \E b \in {UserBody(n, e, i) : n \in {Undefined, "", "bob"},
                                  e \in Emails \cup {Undefined, "bogus"}, i \in Ids} :
        ReceiveAlone("putUser", b)

ReceiveDeleteUser ==
    \E i \in Ids : ReceiveAlone("deleteUser", UserBody(Undefined, Undefined, i))

NextUsers == ReceivePostUser \/ ReceivePutUser \/ ReceiveDeleteUser \/ EngineExec

SpecUsers == Init /\ [][NextUsers]_vars

\* Concurrent clients of every route that has a request validator.
ReceiveQueryAny ==
    \E b \in {Malformed} \cup {QueryBody(Stmt(o)) : o \in {"", "inc"}} :
        Receive("query", b, MaxReq)

ReceiveImport ==
    \E b \in {Malformed} \cup {QueryBody(Stmt(o)) : o \in {"", "inc"}} :
        Receive("import", b, MaxReq)

ReceivePostUserAny ==
    \E b \in {Malformed, UserBody("", "a@x.io", 0), UserBody("ann", "bogus", 0),
              UserBody("ann", "a@x.io", 0)} :
        Receive("postUser", b, MaxReq)

ReceivePutUserAny ==
    \E b \in {Malformed, UserBody("", Undefined, 1), UserBody(Undefined, "bogus", 1),
              UserBody(Undefined, Undefined, 1), UserBody("bob", Undefined, 1)} :
        Receive("putUser", b, MaxReq)

NextRoutes ==
    \/ ReceiveQueryAny \/ ReceiveTransaction \/ ReceiveImport
    \/ ReceivePostUserAny \/ ReceivePutUserAny \/ EngineExec

SpecRoutes == Init /\ [][NextRoutes]_vars

\* Backup and restore of one table: GET /export on a store that holds the
\* table, POST /import of the dump into a store that does not.
InitExport ==
    /\ store = InitStore
    /\ snap = InitStore
    /\ tx = "idle"
    /\ nextId = 1
    /\ queue = <<>>
    /\ req = <<>>
    /\ boot = Booted
    /\ \E schema \in Schemas :
          \E rows \in Tables(schema) :
             xfer = [NoTransfer EXCEPT !.phase = "stored", !.schema = schema,
                                       !.source = rows]

\* GET /export
Export ==
    /\ xfer.phase = "stored"
    /\ xfer' = [xfer EXCEPT !.phase = "exported", !.dump = ExportDump(xfer.source)]
    /\ UNCHANGED <<store, snap, tx, nextId, queue, req, boot>>

\* POST /import of the exported text into the fresh store
Import ==
    /\ xfer.phase = "exported"
    /\ LET res == ImportDump(xfer.dump, xfer.schema)
       IN  xfer' = [xfer EXCEPT !.phase = "imported", !.target = res.rows,
                                !.status = IF res.ok THEN 200 ELSE 400]
    /\ UNCHANGED <<store, snap, tx, nextId, queue, req, boot>>

NextExport == Export \/ Import

SpecExport == InitExport /\ [][NextExport]_vars

\* The process starts on a data directory and an engine in any condition.
InitBoot ==
    /\ store = InitStore
    /\ snap = InitStore
    /\ tx = "idle"
    /\ nextId = 1
    /\ queue = <<>>
    /\ req = <<>>
    /\ xfer = NoTransfer
    /\ \E lock \in Locks, fs \in FileSystems, engine \in Engines,
          ddl \in BOOLEAN, table \in BOOLEAN :
          boot = BootEnv(lock, fs, engine, ddl, table)

BootStep(pc, next) ==
    /\ boot.pc = pc
    /\ boot' = next
    /\ UNCHANGED <<store, snap, tx, nextId, queue, req, xfer>>

StepCleanLock == BootStep("start", CleanLock(boot))

StepWriteCheck == BootStep("initDB", WriteCheck(boot))

StepNewPGlite == BootStep("new", NewPGlite(boot))

StepCreateTable == BootStep("schema", CreateTable(boot))

StepBootCatch == BootStep("catch", BootCatch(boot))

StepListen == BootStep("listen", Listen(boot))

NextBoot ==
    \/ StepCleanLock
    \/ StepWriteCheck
    \/ StepNewPGlite
    \/ StepCreateTable
    \/ StepBootCatch
    \/ StepListen

\* startServer runs on: nothing else competes for the event loop.
SpecBoot == InitBoot /\ [][NextBoot]_vars /\ WF_vars(NextBoot)

----------------------------------------------------------------------------
\* Vocabulary of the properties.

Reqs == 1..Len(req)

Done(r) == req[r].pc = "done"

\* The statements of request r waiting in the session's queue.
Pending(r) == SelectSeq(queue, LAMBDA h : h.rid = r)

\* The call sites of the statements request r has issued so far, in order.
Sites(r) ==
    [k \in 1..Len(req[r].issued) |-> req[r].issued[k].site]
        \o [k \in 1..Len(Pending(r)) |-> Pending(r)[k].site]

\* The statement texts request r has issued so far, in order.
Texts(r) ==
    [k \in 1..Len(req[r].issued) |-> req[r].issued[k].stmt]
        \o [k \in 1..Len(Pending(r)) |-> Pending(r)[k].stmt]

\* The body of request r does not pass its route's validator.
FailsValidation(r) ==
    LET b == req[r].body
    IN  CASE req[r].route = "query"       -> ~QuerySchemaOK(b)
          [] req[r].route = "transaction" -> ~(b.shape = "ok")
          [] req[r].route = "import"      -> ~ImportSchemaOK(b)
          [] req[r].route = "postUser"    -> ~UserCreateOK(b)
          [] req[r].route = "putUser"     -> ~UserUpdateOK(b)
          [] OTHER                        -> FALSE

\* Request r's BEGIN has been executed and neither its COMMIT nor its
\* ROLLBACK has.
Open(r) ==
    /\ req[r].route = "transaction"
    /\ \E k \in 1..Len(req[r].issued) :
          /\ req[r].issued[k].site = "begin" /\ req[r].issued[k].ok
          /\ \A j \in (k + 1)..Len(req[r].issued) :
                req[r].issued[j].site \notin {"commit", "rollback"}

\* The session completes a statement of request r in this step.
Executes(r) == Len(req'[r].issued) > Len(req[r].issued)

----------------------------------------------------------------------------
\* C2: while two POST /transaction requests are in flight, no statement of
\* another request is executed between one request's BEGIN and that
\* request's COMMIT or ROLLBACK (so the second BEGIN waits for the first
\* request's COMMIT/ROLLBACK).
C2_NoForeignStatementInsideTransaction ==
    [][\A r \in Reqs : \A r2 \in Reqs \ {r} : Open(r) => ~Executes(r2)]_vars

OnlyIncrements ==
    \A r \in Reqs : req[r].route = "query" /\ req[r].body = QueryBody(Stmt("inc"))

\* C3: N overlapping POST /query requests that each run one increment leave
\* the counter at its initial value plus N, each answered 200.
C3_IncrementsAllCounted ==
    (OnlyIncrements /\ InFlight = {}) =>
        /\ store.val = InitStore.val + Len(req)
        /\ \A r \in Reqs : req[r].status = 200

C3_Witness ==
    /\ OnlyIncrements /\ InFlight = {} /\ Len(req) >= 2
    /\ req[2].with = {1}
    /\ store.val = InitStore.val + Len(req)

\* C4: a request whose body fails its route's validation is answered 400 and
\* issues no statement to the session.
C4_NoStatementOnValidationFailure ==
    \A r \in Reqs : FailsValidation(r) =>
        /\ Sites(r) = <<>>
        /\ Done(r) /\ req[r].status = 400

EmptyBatch(r) ==
    /\ req[r].route = "transaction"
    /\ req[r].body.shape = "ok"
    /\ req[r].body.queries = <<>>

\* C5 as claimed: an empty `queries` list is rejected with 400 and neither
\* BEGIN nor COMMIT is issued for it.
C5_EmptyBatchRejected ==
    \A r \in Reqs : EmptyBatch(r) =>
        /\ \A k \in 1..Len(Sites(r)) : Sites(r)[k] \notin {"begin", "commit"}
        /\ Done(r) => req[r].status = 400

\* C5 amended: an empty `queries` list passes validation: BEGIN is issued
\* first, COMMIT right after a successful BEGIN, and when both succeed the
\* answer is 200 with an empty `results`; a body whose `queries` is missing
\* or ill-typed is answered 400 with neither BEGIN nor COMMIT issued.
C5_EmptyBatchCommitted ==
    \A r \in Reqs : req[r].route = "transaction" =>
        /\ EmptyBatch(r) =>
              /\ Sites(r)[1] = "begin"
              /\ (Done(r) /\ req[r].issued[1].ok) =>
                    /\ Sites(r) = <<"begin", "commit">>
                    /\ req[r].issued[2].ok =>
                          /\ req[r].status = 200
                          /\ req[r].hasResults /\ req[r].respResults = <<>>
        /\ req[r].body.shape # "ok" =>
              /\ \A k \in 1..Len(Sites(r)) : Sites(r)[k] \notin {"begin", "commit"}
              /\ Done(r) => req[r].status = 400

C5_Witness ==
    \E r \in Reqs :
        /\ EmptyBatch(r) /\ Done(r) /\ req[r].status = 200
        /\ Sites(r) = <<"begin", "commit">>

TxTexts(r) == <<Stmt("BEGIN")>> \o req[r].body.queries \o <<Stmt("COMMIT")>>

TxSites(r) ==
    <<"begin">> \o [k \in 1..Len(req[r].body.queries) |-> "stmt"] \o <<"commit">>

C9_InOrder(r, sites, texts) ==
    LET n == Len(sites)
        p == IF n > 0 /\ sites[n] = "rollback" THEN n - 1 ELSE n
    IN  /\ 1 <= p /\ p <= Len(TxSites(r))
        /\ SubSeq(texts, 1, p) = SubSeq(TxTexts(r), 1, p)
        /\ SubSeq(sites, 1, p) = SubSeq(TxSites(r), 1, p)
        /\ n > p => texts[n] = Stmt("ROLLBACK")

C9_StopsAtFailure(r, sites) ==
    \A k \in 1..Len(req[r].issued) :
        LET failed == ~req[r].issued[k].ok /\ req[r].issued[k].site # "rollback"
        IN  /\ failed => Len(sites) = k + 1 /\ sites[k + 1] = "rollback"
            /\ (k < Len(sites) /\ sites[k + 1] = "rollback") => failed

C9_Results(r, sites) ==
    /\ req[r].status = 400 => ~req[r].hasResults /\ req[r].respResults = <<>>
    /\ req[r].status = 200 =>
          /\ sites = TxSites(r)
          /\ req[r].hasResults
          /\ Len(req[r].respResults) = Len(req[r].body.queries)
          /\ \A k \in 1..Len(req[r].body.queries) :
                /\ req[r].issued[k + 1].stmt = req[r].body.queries[k]
                /\ req[r].respResults[k].rows = req[r].issued[k + 1].rows
                /\ req[r].respResults[k].rowCount = Len(req[r].issued[k + 1].rows)

\* C9: a POST /transaction request issues BEGIN, queries[1..n], COMMIT in
\* this order, each after the previous one has completed; after a failing
\* statement only ROLLBACK follows; a 400 response carries no results; a
\* 200 response carries n results, results[i] being that of queries[i].
C9_OrderedBatch ==
    \A r \in Reqs : (req[r].route = "transaction" /\ req[r].body.shape = "ok") =>
        LET pending == Pending(r)
            sites == [k \in 1..Len(req[r].issued) |-> req[r].issued[k].site]
                         \o [k \in 1..Len(pending) |-> pending[k].site]
            texts == [k \in 1..Len(req[r].issued) |-> req[r].issued[k].stmt]
                         \o [k \in 1..Len(pending) |-> pending[k].stmt]
        IN  /\ Len(pending) <= 1
            /\ Done(r) <=> pending = <<>>
            /\ Done(r) <=> req[r].status # 0
            /\ C9_InOrder(r, sites, texts)
            /\ C9_StopsAtFailure(r, sites)
            /\ C9_Results(r, sites)

C9_Witness ==
    \E r \in Reqs : \E r2 \in Reqs :
        /\ req[r].route = "transaction" /\ req[r2].route = "transaction"
        /\ Len(req[r].body.queries) = 2 /\ Len(req[r2].body.queries) = 2
        /\ req[r].status = 200
        /\ req[r].respResults[1] # req[r].respResults[2]
        /\ req[r2].status = 400
        /\ Sites(r2) = <<"begin", "stmt", "stmt", "rollback">>
        /\ req[r2].issued[2].ok /\ ~req[r2].issued[3].ok

----------------------------------------------------------------------------
\* Properties of SpecSeq: one request at a time.

\* Statement k of the batch of request r failed.
StatementFailed(r) ==
    \E k \in 1..Len(req[r].issued) :
        req[r].issued[k].site = "stmt" /\ ~req[r].issued[k].ok

\* C1 as claimed: a batch handled alone, one of whose statements fails, is
\* answered 400 and leaves the store as it was before the request (r is
\* the latest request: nothing has run since its response).
C1_FailedBatchLeavesStore ==
    \A r \in Reqs :
        (/\ req[r].route = "transaction" /\ Done(r) /\ StatementFailed(r)
         /\ r = Len(req)) =>
            /\ req[r].status = 400
            /\ store = req[r].pre

NoTxControl(r) ==
    \A k \in 1..Len(req[r].body.queries) : req[r].body.queries[k].op \notin TxControl

\* C1 amended: the same, for a batch that contains no transaction control
\* statement and arrives while the session has no transaction block left
\* open by an earlier request.
C1_PlainFailedBatchLeavesStore ==
    \A r \in Reqs :
        (/\ req[r].route = "transaction" /\ Done(r) /\ StatementFailed(r)
         /\ r = Len(req) /\ NoTxControl(r) /\ req[r].pretx = "idle") =>
            /\ req[r].status = 400
            /\ store = req[r].pre
            /\ tx = "idle"

C1_Witness ==
    \E r \in Reqs :
        /\ req[r].route = "transaction" /\ Done(r) /\ r = Len(req)
        /\ req[r].body.queries = <<Stmt("inc"), Stmt("bad")>>
        /\ req[r].pretx = "idle"
        /\ req[r].issued[2].ok /\ ~req[r].issued[3].ok
        /\ req[r].pre.val = 1
        /\ req[r].status = 400 /\ store = req[r].pre

----------------------------------------------------------------------------
\* Properties of SpecFault: the ROLLBACK of the catch block may fail.

\* The first statement of request r that failed, before its ROLLBACK.
FirstFailure(r) ==
    LET ks == {k \in 1..Len(req[r].issued) :
                  ~req[r].issued[k].ok /\ req[r].issued[k].site # "rollback"}
    IN  req[r].issued[CHOOSE k \in ks : \A j \in ks : k <= j]

RollbackFailed(r) ==
    /\ req[r].route = "transaction" /\ Done(r)
    /\ \E k \in 1..Len(req[r].issued) :
          req[r].issued[k].site = "rollback" /\ ~req[r].issued[k].ok
    /\ \E k \in 1..Len(req[r].issued) :
          req[r].issued[k].site # "rollback" /\ ~req[r].issued[k].ok

\* C10: when a statement of the batch fails and the ROLLBACK fails too, the
\* request gets exactly one response, 400, whose error is the message of
\* the failing statement and not that of the rollback.
C10_RollbackErrorSuppressed ==
    \A r \in Reqs : RollbackFailed(r) =>
        /\ req[r].nresp = 1
        /\ req[r].status = 400
        /\ req[r].error = FirstFailure(r).msg
        /\ req[r].error # "rollback failed"

C10_Witness ==
    \E r \in Reqs :
        /\ RollbackFailed(r)
        /\ FirstFailure(r).site = "stmt"
        /\ req[r].error = "syntax error"
        /\ tx = "failed"

----------------------------------------------------------------------------
\* Properties of SpecUsers: the users routes, one request at a time.

UniqueEmails ==
    \A u \in store.users : \A w \in store.users : u.email = w.email => u = w

\* A POST /users with a valid body whose email some row already has.
DuplicatePost(r) ==
    /\ req[r].route = "postUser" /\ UserCreateOK(req[r].body)
    /\ \E u \in req[r].pre.users : u.email = req[r].body.email

\* C6: no two rows of users have the same email; a POST /users whose email
\* is that of an existing row is answered 400 and inserts no row.
C6_EmailsStayUnique ==
    /\ UniqueEmails
    /\ \A r \in Reqs : (DuplicatePost(r) /\ Done(r)) =>
          /\ req[r].status = 400
          /\ store.users = req[r].pre.users

C6_Witness ==
    \E r \in Reqs :
        /\ DuplicatePost(r) /\ Done(r)
        /\ req[r].status = 400
        /\ Cardinality(store.users) = 2

\* A PUT /users/:id whose body has neither name nor email.
EmptyPut(r) ==
    /\ req[r].route = "putUser"
    /\ req[r].body.name = Undefined /\ req[r].body.email = Undefined

\* C8: PUT /users/:id with neither name nor email is answered 400 without
\* any UPDATE being issued, whatever the id, and users is unchanged.
C8_EmptyPutRejected ==
    \A r \in Reqs : EmptyPut(r) =>
        /\ Sites(r) = <<>>
        /\ Done(r) /\ req[r].status = 400
        /\ store = req[r].pre

C8_Witness ==
    \E r \in Reqs :
        /\ EmptyPut(r) /\ req[r].status = 400
        /\ req[r].error = "No fields to update"
        /\ \E u \in store.users : u.id = req[r].body.id

----------------------------------------------------------------------------
\* Properties of SpecExport.

\* The two row sequences hold the same rows, each as often.
SameRows(a, b) ==
    /\ Len(a) = Len(b)
    /\ \A x \in {a[k] : k \in 1..Len(a)} \cup {b[k] : k \in 1..Len(b)} :
          Cardinality({k \in 1..Len(a) : a[k] = x})
              = Cardinality({k \in 1..Len(b) : b[k] = x})

\* C7: the text GET /export produces for a simple table, imported into a
\* fresh store, gives back the same rows up to order, also for strings with
\* single quotes and for NULL values.
C7_ExportImportRoundTrip ==
    xfer.phase = "imported" =>
        /\ xfer.status = 200
        /\ SameRows(xfer.target, xfer.source)

----------------------------------------------------------------------------
Pos(event) ==
    IF \E k \in 1..Len(boot.log) : boot.log[k] = event
    THEN CHOOSE k \in 1..Len(boot.log) : boot.log[k] = event
    ELSE 0

Happened(event) == Pos(event) # 0

Before(a, b) == Happened(b) => (Happened(a) /\ Pos(a) < Pos(b))

LockHandled(event) ==
    \/ boot.lock = "absent"
    \/ Before("lock_removed", event)
    \/ Before("lock_remove_failed", event)

BootFailed ==
    \/ Happened("write_check_failed")
    \/ Happened("open_failed")
    \/ Happened("create_table_failed")

C11_Order ==
    /\ Happened("open") => (LockHandled("open") /\ Before("write_check", "open"))
    /\ Before("open", "create_table")
    /\ boot.listening =>
          /\ Happened("listen")
          /\ LockHandled("listen")
          /\ Before("write_check", "listen")
          /\ Before("open", "listen")
          /\ Before("create_table", "listen")
    /\ BootFailed => (~boot.listening /\ boot.exitCode \in {Running, 1})
    /\ (boot.exitCode # Running \/ boot.pc \in {"catch", "exited"}) => BootFailed

\* C11: startup is ordered: the lock cleanup and the write/delete check come
\* before the session is opened, the create-table after it, and the listener
\* binds only after all of them succeeded; when the write check, the engine
\* open or the create-table fails the process exits with code 1 and never
\* listens; a lock file that cannot be removed does not abort startup, which
\* then goes on to listen when nothing else fails.
C11_StartupOrdered ==
    /\ []C11_Order
    /\ (BootFailed ~> (boot.pc = "exited" /\ boot.exitCode = 1))
    /\ []((boot.pc = "exited") => [](~boot.listening))
    /\ <>(BootFailed \/ boot.listening)

C11_Witness ==
    /\ boot.listening
    /\ Happened("lock_remove_failed")
    /\ boot.log = <<"lock_remove_failed", "write_check", "open", "create_table", "listen">>

----------------------------------------------------------------------------
\* The increments a request asks for.
Asked(r) ==
    IF req[r].route = "query"
    THEN IF req[r].body.query.op = "inc" THEN 1 ELSE 0
    ELSE Cardinality({k \in 1..Len(req[r].body.queries) :
                         req[r].body.queries[k].op = "inc"})

\* The increments of the requests 1..n that were answered 200.
RECURSIVE Acknowledged(_)
Acknowledged(n) ==
    IF n = 0 THEN 0
    ELSE Acknowledged(n - 1) + (IF req[n].status = 200 THEN Asked(n) ELSE 0)

\* C12: POST /transaction is all-or-nothing under every interleaving of
\* /transaction and /query requests on the shared session: once every
\* request is answered, the store holds exactly the increments of the
\* requests answered 200 (all statements of a /transaction answered 200,
\* none of one answered 400, and every /query answered 200).
C12_AllOrNothingUnderConcurrency ==
    (\A r \in Reqs : Done(r)) => store.val = Acknowledged(Len(req))

====
